---- MODULE Spec2Model ----
(***************************************************************************)
(* Model of the browser side of the notes application: the sign-in screen  *)
(* (src/src/pages/SignIn.tsx), the sign-up screen and the Dashboard        *)
(* (src/src/pages/Dashboard.tsx), the sign-out of the Welcome screen       *)
(* (src/unnamed/part_002), the shared API client with its 401 interceptor  *)
(* (src/unnamed/part_001) and the session context.                         *)
(*                                                                         *)
(* Strings that the code inspects character by character (the OTP) are     *)
(* sequences of one-character strings.  An optional value (Date | null) is *)
(* a sequence of length 0 or 1.  Instants are milliseconds.                *)
(***************************************************************************)
EXTENDS Integers, Sequences, FiniteSets, Bags, TLC

VARIABLES
    screen,           \* which screen this instance is: "signin", "signup" or "dashboard"
    mounted,          \* the screen instance is mounted
    unloading,        \* a document navigation (window.location.href = ...) is pending
    location,         \* the location the application was last sent to
    storedToken,      \* localStorage 'token'
    user,             \* the session context's in-memory user
    isLoading,        \* useState(false)
    showOTP,          \* useState(false)
    otp,              \* useState('')
    userEmail,        \* useState('')
    otpRequestCount,  \* useState(0)
    lastOtpRequest,   \* useState<Date | null>(null)
    clock,            \* the wall clock read by new Date()
    inflight,         \* bag of requests awaiting their response
    toast,            \* the notification raised by the latest step, if any
    otpSent,          \* number of POST /auth/request-otp put on the network
    otpSentAt,        \* instant of the latest POST /auth/request-otp, if any
    notes,            \* Dashboard: useState<Note[]>([]), the local notes cache
    showCreateForm,   \* Dashboard: useState(false)
    formData,         \* Dashboard: useState({ title: '', content: '' })
    serverNotes,      \* the notes the server holds for the user, newest first
    serverCreated     \* number of notes the server has created so far

vars == <<screen, mounted, unloading, location, storedToken, user, isLoading,
          showOTP, otp, userEmail, otpRequestCount, lastOtpRequest, clock,
          inflight, toast, otpSent, otpSentAt,
          notes, showCreateForm, formData, serverNotes, serverCreated>>

screenVars == <<isLoading, showOTP, otp, userEmail, otpRequestCount, lastOtpRequest>>
sessionVars == <<storedToken, user>>
pageVars == <<screen, mounted, unloading, location>>
netVars == <<inflight, otpSent, otpSentAt>>
dashVars == <<notes, showCreateForm, formData, serverNotes, serverCreated>>

-----------------------------------------------------------------------------
(* Bounds of the model *)

\* the clock advances in steps of TickMs: at most MaxTicks times in a
\* behaviour of SpecThrottle, at most MaxFlowTicks times in one of Spec
TickMs == 30000
MaxTicks == 4
MaxFlowTicks == 1
\* requests awaiting a response at the same time
MaxInflight == 2
\* POST /auth/request-otp requests a behaviour of SpecThrottle may put on the network
MaxSent == 6
\* POST /auth/request-otp requests a behaviour of Spec may put on the network
MaxFlowSent == 1
\* the instant at which the handlers are applied to drawn inputs
UnitNow == 100000

(* Program constants *)

OtpIntervalMs == 60000
MsPerSecond == 1000
MaxOtpRequests == 5
OtpLength == 6
Unauthorized == 401

-----------------------------------------------------------------------------
(* Values *)

None == <<>>
Some(x) == <<x>>

NoToken == "null"
NoUser == "null"

Digits == {"0", "1", "2", "3", "4", "5", "6", "7", "8", "9"}

Emails == {"jane@example.com", "joe@example.com"}

\* what the user may type or paste into the OTP field (maxLength = 6)
OtpInputs ==
    { <<"1", "2", "3", "4", "5", "6">>,
      <<"1", "2", "a", "4", "5", "6">> }

\* otp values the verification handler is applied to
UnitOtps ==
    OtpInputs \cup
    { <<>>,
      <<"1", "2", "3", "4">>,
      <<"1", "2", "3", "4", "5", "6", "7">>,
      <<"a", "b", "c", "d", "e", "f">>,
      <<"1", "2", "3", "4", "5", " ">>,
      <<"0", "0", "0", "0", "0", "0">> }

\* ages of lastOtpRequest the resend handler is applied to
UnitDeltas ==
    {0, 1, 999, 1000, 1001, 29001, 30000, 30999, 59000, 59001, 59999,
     OtpIntervalMs, OtpIntervalMs + 1}

NoToast == [type |-> "none", text |-> "", n |-> 0]
ToastError(text) == [type |-> "error", text |-> text, n |-> 0]
ToastSuccess(text) == [type |-> "success", text |-> text, n |-> 0]

Request(url, email, code, now) == [url |-> url, email |-> email, otp |-> code, now |-> now]

ErrorResponses ==
    { [status |-> 400, message |-> "", errors |-> "none",
       token |-> NoToken, user |-> NoUser],
      [status |-> 400, message |-> "Validation failed", errors |-> "emailExists",
       token |-> NoToken, user |-> NoUser],
      [status |-> Unauthorized, message |-> "Unauthorized", errors |-> "none",
       token |-> NoToken, user |-> NoUser] }

OkResponses(r) ==
    { [status |-> 200, message |-> "", errors |-> "none",
       token |-> "jwt", user |-> r.email] }

Responses(r) == OkResponses(r) \cup ErrorResponses

\* the client resolves a 2xx response and rejects every other
IsError(resp) == ~(resp.status >= 200 /\ resp.status < 300)

-----------------------------------------------------------------------------
(* Pure functions *)

\* faulty variant: the typed value stored as it is
StripNothing(s) == s

\* e.target.value.replace(/\D/g, '')
RECURSIVE StripNonDigits(_)
StripNonDigits(s) ==
    IF s = <<>> THEN <<>>
    ELSE IF Head(s) \in Digits THEN <<Head(s)>> \o StripNonDigits(Tail(s))
    ELSE StripNonDigits(Tail(s))

\* /^\d{6}$/.test(s): exactly OtpLength digits between the two anchors
RECURSIVE MatchDigits(_, _)
MatchDigits(s, k) ==
    IF k = 0 THEN s = <<>>
    ELSE s # <<>> /\ Head(s) \in Digits /\ MatchDigits(Tail(s), k - 1)

MatchesOtpRegex(s) == MatchDigits(s, OtpLength)

\* faulty variant: the length test alone
ValidateOTPLengthOnly(s) == Len(s) = OtpLength

\* validateOTP: otp.length === 6 && otpRegex.test(otp)
ValidateOTP(s) == Len(s) = OtpLength /\ MatchesOtpRegex(s)

\* Math.ceil(a / b) for b > 0
CeilDiv(a, b) == IF a % b = 0 THEN a \div b ELSE (a \div b) + 1

\* faulty variant: Math.floor in place of Math.ceil
RemainingTimeFloor(last, now) == (last + OtpIntervalMs - now) \div MsPerSecond

\* Math.ceil((lastOtpRequest.getTime() + 60 * 1000 - now.getTime()) / 1000)
RemainingTime(last, now) == CeilDiv(last + OtpIntervalMs - now, MsPerSecond)

\* faulty variant: the ceiling compared with > in place of >=
OTPRequestOutcomeOffByOne(email, last, count, now) ==
    IF email = "" THEN "noEmail"
    ELSE IF last # None /\ last[1] > now - OtpIntervalMs THEN "wait"
    ELSE IF count > MaxOtpRequests THEN "tooMany"
    ELSE "send"

\* the synchronous part of handleOTPRequest: which branch it takes
OTPRequestOutcome(email, last, count, now) ==
    IF email = "" THEN "noEmail"
    ELSE IF last # None /\ last[1] > now - OtpIntervalMs THEN "wait"
    ELSE IF count >= MaxOtpRequests THEN "tooMany"
    ELSE "send"

\* faulty variant: the length is checked, the pattern is not
OTPVerificationOutcomeNoRegex(code, email) ==
    IF code = <<>> \/ email = "" THEN "missing"
    ELSE IF Len(code) # OtpLength THEN "length"
    ELSE "send"

\* the synchronous part of handleOTPVerification: which branch it takes
OTPVerificationOutcome(code, email) ==
    IF code = <<>> \/ email = "" THEN "missing"
    ELSE IF Len(code) # OtpLength THEN "length"
    ELSE IF ~MatchesOtpRegex(code) THEN "numeric"
    ELSE "send"

\* error.response?.data?.message || fallback
ServerMessage(resp, fallback) == IF resp.message # "" THEN resp.message ELSE fallback

\* faulty variant: the interceptor redirects without removing the token
InterceptTokenKeeps(resp, tok) == tok

\* the response interceptor's error branch: localStorage.removeItem('token')
InterceptToken(resp, tok) == IF resp.status = Unauthorized THEN NoToken ELSE tok

\* the response interceptor's error branch: window.location.href = '/signin'
InterceptLocation(resp, loc) == IF resp.status = Unauthorized THEN "/signin" ELSE loc

\* the document navigation that assignment starts
InterceptUnloading(resp, u) == IF resp.status = Unauthorized THEN TRUE ELSE u

\* faulty variant: the button also disabled while the interval runs
ResendDisabledWhileWaiting ==
    \/ otpRequestCount >= MaxOtpRequests
    \/ lastOtpRequest # None /\ clock - lastOtpRequest[1] < OtpIntervalMs

\* disabled={otpRequestCount >= 5}
ResendDisabled == otpRequestCount >= MaxOtpRequests

\* the session context treats a persisted token as an authenticated user
Hydrate(tok) == IF tok = NoToken THEN NoUser ELSE "hydrated"

Add(bag, r) == bag (+) SetToBag({r})
Remove(bag, r) == bag (-) SetToBag({r})
Pending(url) == {r \in BagToSet(inflight) : r.url = url}
CanSend == BagCardinality(inflight) < MaxInflight

-----------------------------------------------------------------------------
(* Initial state: a freshly mounted sign-in or sign-up screen *)

\* the Dashboard state while no dashboard is mounted: the initial values of
\* its state, and a server that holds no note
EmptyForm == [title |-> <<>>, content |-> <<>>]

NoDashboard ==
    /\ notes = <<>>
    /\ showCreateForm = FALSE
    /\ formData = EmptyForm
    /\ serverNotes = <<>>
    /\ serverCreated = 0

Init ==
    /\ screen \in {"signin", "signup"}
    /\ mounted = TRUE
    /\ unloading = FALSE
    /\ location = (IF screen = "signin" THEN "/signin" ELSE "/signup")
    /\ storedToken = NoToken
    /\ user = Hydrate(storedToken)
    /\ isLoading = FALSE
    /\ showOTP = FALSE
    /\ otp = <<>>
    /\ userEmail = ""
    /\ otpRequestCount = 0
    /\ lastOtpRequest = None
    /\ clock = 0
    /\ inflight = EmptyBag
    /\ toast = NoToast
    /\ otpSent = 0
    /\ otpSentAt = None
    /\ NoDashboard

-----------------------------------------------------------------------------
(* The handlers *)

SubmitUrl == IF screen = "signin" THEN "/auth/login" ELSE "/auth/register"

\* onSubmit up to its await: setIsLoading(true); api.post(url, {email, ...})
OnSubmit(email) ==
    /\ CanSend
    /\ isLoading' = TRUE
    /\ inflight' = Add(inflight, Request(SubmitUrl, email, <<>>, None))
    /\ UNCHANGED <<showOTP, otp, userEmail, otpRequestCount, lastOtpRequest>>
    /\ toast' = NoToast
    /\ UNCHANGED <<sessionVars, pageVars, clock, otpSent, otpSentAt>>

\* the notification of onSubmit's catch block
SubmitErrorToast(r, resp) ==
    IF r.url = "/auth/register" /\ resp.errors = "emailExists"
    THEN ToastError("This email is already registered. Please use a different email or try signing in instead.")
    ELSE ToastError(ServerMessage(resp, IF r.url = "/auth/login" THEN "Login failed"
                                        ELSE "Registration failed"))

\* the notification of onSubmit's success path
SubmitSuccessToast(r) ==
    IF r.url = "/auth/login"
    THEN ToastSuccess("OTP sent to your email for login verification")
    ELSE ToastSuccess("Registration successful! Please check your email for OTP verification.")

\* faulty variant: setIsLoading(false) on the success path only, not in finally
OnSubmitDoneNoFinally(r, resp) ==
    /\ inflight' = Remove(inflight, r)
    /\ IF IsError(resp)
       THEN /\ storedToken' = InterceptToken(resp, storedToken)
            /\ location' = InterceptLocation(resp, location)
            /\ unloading' = InterceptUnloading(resp, unloading)
            /\ toast' = SubmitErrorToast(r, resp)
            /\ UNCHANGED <<userEmail, showOTP, isLoading>>
       ELSE /\ userEmail' = (IF mounted THEN r.email ELSE userEmail)
            /\ showOTP' = (IF mounted THEN TRUE ELSE showOTP)
            /\ isLoading' = (IF mounted THEN FALSE ELSE isLoading)
            /\ toast' = SubmitSuccessToast(r)
            /\ UNCHANGED <<storedToken, location, unloading>>
    /\ UNCHANGED <<otp, otpRequestCount, lastOtpRequest>>
    /\ UNCHANGED <<screen, mounted, user, clock, otpSent, otpSentAt>>

\* faulty variant: the success path shows the OTP view without setUserEmail(data.email)
OnSubmitDoneKeepsEmail(r, resp) ==
    /\ inflight' = Remove(inflight, r)
    /\ isLoading' = (IF mounted THEN FALSE ELSE isLoading)
    /\ IF IsError(resp)
       THEN /\ storedToken' = InterceptToken(resp, storedToken)
            /\ location' = InterceptLocation(resp, location)
            /\ unloading' = InterceptUnloading(resp, unloading)
            /\ toast' = SubmitErrorToast(r, resp)
            /\ UNCHANGED <<userEmail, showOTP>>
       ELSE /\ showOTP' = (IF mounted THEN TRUE ELSE showOTP)
            /\ toast' = SubmitSuccessToast(r)
            /\ UNCHANGED <<userEmail, storedToken, location, unloading>>
    /\ UNCHANGED <<otp, otpRequestCount, lastOtpRequest>>
    /\ UNCHANGED <<screen, mounted, user, clock, otpSent, otpSentAt>>

\* onSubmit after its await, for the response resp to the request r
OnSubmitDone(r, resp) ==
    /\ inflight' = Remove(inflight, r)
    /\ isLoading' = (IF mounted THEN FALSE ELSE isLoading)
    /\ IF IsError(resp)
       THEN /\ storedToken' = InterceptToken(resp, storedToken)
            /\ location' = InterceptLocation(resp, location)
            /\ unloading' = InterceptUnloading(resp, unloading)
            /\ toast' = SubmitErrorToast(r, resp)
            /\ UNCHANGED <<userEmail, showOTP>>
       ELSE /\ userEmail' = (IF mounted THEN r.email ELSE userEmail)
            /\ showOTP' = (IF mounted THEN TRUE ELSE showOTP)
            /\ toast' = SubmitSuccessToast(r)
            /\ UNCHANGED <<storedToken, location, unloading>>
    /\ UNCHANGED <<otp, otpRequestCount, lastOtpRequest>>
    /\ UNCHANGED <<screen, mounted, user, clock, otpSent, otpSentAt>>

\* the notification of a handleOTPRequest that does not reach the network
OTPRequestToast(outcome, last, now) ==
    IF outcome = "noEmail" THEN ToastError("Please enter your email first")
    ELSE IF outcome = "wait"
    THEN [type |-> "error",
          text |-> "Please wait N seconds before requesting another OTP",
          n |-> RemainingTime(last[1], now)]
    ELSE ToastError("Too many OTP requests. Please try again later.")

\* handleOTPRequest up to its await
HandleOTPRequest ==
    LET now == clock
        outcome == OTPRequestOutcome(userEmail, lastOtpRequest, otpRequestCount, now)
    IN  /\ outcome = "send" => CanSend
        /\ IF outcome = "send"
           THEN /\ inflight' = Add(inflight,
                                   Request("/auth/request-otp", userEmail, <<>>, Some(now)))
                /\ otpSent' = otpSent + 1
                /\ otpSentAt' = Some(now)
                /\ toast' = NoToast
           ELSE /\ toast' = OTPRequestToast(outcome, lastOtpRequest, now)
                /\ UNCHANGED netVars
        /\ UNCHANGED <<screenVars, sessionVars, pageVars, clock>>

\* faulty variant: a failed request counted and timed like an accepted one
HandleOTPRequestDoneCountsFailure(r, resp) ==
    /\ inflight' = Remove(inflight, r)
    /\ otpRequestCount' = (IF mounted THEN otpRequestCount + 1 ELSE otpRequestCount)
    /\ lastOtpRequest' = (IF mounted THEN r.now ELSE lastOtpRequest)
    /\ IF IsError(resp)
       THEN /\ storedToken' = InterceptToken(resp, storedToken)
            /\ location' = InterceptLocation(resp, location)
            /\ unloading' = InterceptUnloading(resp, unloading)
            /\ toast' = ToastError(ServerMessage(resp, "Failed to send OTP"))
       ELSE /\ toast' = ToastSuccess("OTP sent to your email")
            /\ UNCHANGED <<storedToken, location, unloading>>
    /\ UNCHANGED <<isLoading, showOTP, otp, userEmail>>
    /\ UNCHANGED <<screen, mounted, user, clock, otpSent, otpSentAt>>

\* handleOTPRequest after its await
HandleOTPRequestDone(r, resp) ==
    /\ inflight' = Remove(inflight, r)
    /\ IF IsError(resp)
       THEN /\ storedToken' = InterceptToken(resp, storedToken)
            /\ location' = InterceptLocation(resp, location)
            /\ unloading' = InterceptUnloading(resp, unloading)
            /\ toast' = ToastError(ServerMessage(resp, "Failed to send OTP"))
            /\ UNCHANGED <<otpRequestCount, lastOtpRequest>>
       ELSE /\ otpRequestCount' = (IF mounted THEN otpRequestCount + 1 ELSE otpRequestCount)
            /\ lastOtpRequest' = (IF mounted THEN r.now ELSE lastOtpRequest)
            /\ toast' = ToastSuccess("OTP sent to your email")
            /\ UNCHANGED <<storedToken, location, unloading>>
    /\ UNCHANGED <<isLoading, showOTP, otp, userEmail>>
    /\ UNCHANGED <<screen, mounted, user, clock, otpSent, otpSentAt>>

\* the notification of a handleOTPVerification that does not reach the network
OTPVerificationToast(outcome) ==
    IF outcome = "missing" THEN ToastError("Please enter OTP and email")
    ELSE IF outcome = "length" THEN ToastError("OTP must be exactly 6 digits")
    ELSE ToastError("OTP must contain only numbers")

\* handleOTPVerification up to its await
HandleOTPVerification ==
    LET outcome == OTPVerificationOutcome(otp, userEmail)
    IN  /\ outcome = "send" => CanSend
        /\ IF outcome = "send"
           THEN /\ inflight' = Add(inflight, Request("/auth/verify-otp", userEmail, otp, None))
                /\ toast' = NoToast
           ELSE /\ toast' = OTPVerificationToast(outcome)
                /\ UNCHANGED inflight
        /\ UNCHANGED <<screenVars, sessionVars, pageVars, clock, otpSent, otpSentAt>>

\* login(token, user) of the session context: the token it persists
LoginToken(token, u) == token

\* login(token, user) of the session context: the user it holds
LoginUser(token, u) == u

\* faulty variant: the success path navigates without login(token, user)
HandleOTPVerificationDoneNoLogin(r, resp) ==
    /\ inflight' = Remove(inflight, r)
    /\ IF IsError(resp)
       THEN /\ storedToken' = InterceptToken(resp, storedToken)
            /\ location' = InterceptLocation(resp, location)
            /\ unloading' = InterceptUnloading(resp, unloading)
            /\ toast' = ToastError(ServerMessage(resp, "OTP verification failed"))
            /\ UNCHANGED <<user, mounted>>
       ELSE /\ toast' = ToastSuccess("Email verified successfully!")
            /\ location' = "/welcome"
            /\ mounted' = FALSE
            /\ UNCHANGED <<storedToken, user, unloading>>
    /\ UNCHANGED <<screenVars, screen, clock, otpSent, otpSentAt>>

\* faulty variant: the catch block also clears the entered code
HandleOTPVerificationDoneClearsOtp(r, resp) ==
    /\ inflight' = Remove(inflight, r)
    /\ IF IsError(resp)
       THEN /\ storedToken' = InterceptToken(resp, storedToken)
            /\ location' = InterceptLocation(resp, location)
            /\ unloading' = InterceptUnloading(resp, unloading)
            /\ toast' = ToastError(ServerMessage(resp, "OTP verification failed"))
            /\ otp' = (IF mounted THEN <<>> ELSE otp)
            /\ UNCHANGED <<user, mounted>>
       ELSE /\ storedToken' = LoginToken(resp.token, resp.user)
            /\ user' = LoginUser(resp.token, resp.user)
            /\ toast' = ToastSuccess("Email verified successfully!")
            /\ location' = "/welcome"
            /\ mounted' = FALSE
            /\ UNCHANGED <<otp, unloading>>
    /\ UNCHANGED <<isLoading, showOTP, userEmail, otpRequestCount, lastOtpRequest>>
    /\ UNCHANGED <<screen, clock, otpSent, otpSentAt>>

\* handleOTPVerification after its await
HandleOTPVerificationDone(r, resp) ==
    /\ inflight' = Remove(inflight, r)
    /\ IF IsError(resp)
       THEN /\ storedToken' = InterceptToken(resp, storedToken)
            /\ location' = InterceptLocation(resp, location)
            /\ unloading' = InterceptUnloading(resp, unloading)
            /\ toast' = ToastError(ServerMessage(resp, "OTP verification failed"))
            /\ UNCHANGED <<user, mounted>>
       ELSE /\ storedToken' = LoginToken(resp.token, resp.user)
            /\ user' = LoginUser(resp.token, resp.user)
            /\ toast' = ToastSuccess("Email verified successfully!")
            /\ location' = "/welcome"
            /\ mounted' = FALSE
            /\ UNCHANGED unloading
    /\ UNCHANGED <<screenVars, screen, clock, otpSent, otpSentAt>>

-----------------------------------------------------------------------------
(* The events of a mounted screen *)

\* the sign-in email field: onChange={(e) => setUserEmail(e.target.value)}
TypeEmail ==
    /\ mounted /\ screen = "signin" /\ ~showOTP
    /\ \E e \in Emails \cup {""} :
          /\ e # userEmail
          /\ userEmail' = e
    /\ UNCHANGED <<isLoading, showOTP, otp, otpRequestCount, lastOtpRequest>>
    /\ toast' = NoToast
    /\ UNCHANGED <<sessionVars, pageVars, netVars, clock>>

\* the form's submit button, disabled={isLoading}; the form validates the email
Submit ==
    /\ mounted /\ ~showOTP /\ ~isLoading
    /\ \E e \in Emails : OnSubmit(e)

SubmitDone ==
    \E r \in Pending("/auth/login") \cup Pending("/auth/register") :
        \E resp \in Responses(r) : OnSubmitDone(r, resp)

\* the OTP field: setOtp(e.target.value.replace(/\D/g, ''))
OtpChange ==
    /\ mounted /\ showOTP
    /\ \E raw \in OtpInputs :
          /\ StripNonDigits(raw) # otp
          /\ otp' = StripNonDigits(raw)
    /\ UNCHANGED <<isLoading, showOTP, userEmail, otpRequestCount, lastOtpRequest>>
    /\ toast' = NoToast
    /\ UNCHANGED <<sessionVars, pageVars, netVars, clock>>

\* the Resend OTP button
ResendClick ==
    /\ mounted /\ showOTP /\ ~ResendDisabled
    /\ HandleOTPRequest

ResendDone ==
    \E r \in Pending("/auth/request-otp") :
        \E resp \in Responses(r) : HandleOTPRequestDone(r, resp)

\* the Verify OTP button
VerifyClick ==
    /\ mounted /\ showOTP
    /\ HandleOTPVerification

VerifyDone ==
    \E r \in Pending("/auth/verify-otp") :
        \E resp \in Responses(r) : HandleOTPVerificationDone(r, resp)

\* faulty variant: Back also resets the throttle
BackResetsThrottle ==
    /\ mounted /\ showOTP
    /\ showOTP' = FALSE
    /\ otpRequestCount' = 0
    /\ lastOtpRequest' = None
    /\ UNCHANGED <<isLoading, otp, userEmail>>
    /\ toast' = NoToast
    /\ UNCHANGED <<sessionVars, pageVars, netVars, clock>>

\* the Back button: onClick={() => setShowOTP(false)}
Back ==
    /\ mounted /\ showOTP
    /\ showOTP' = FALSE
    /\ UNCHANGED <<isLoading, otp, userEmail, otpRequestCount, lastOtpRequest>>
    /\ toast' = NoToast
    /\ UNCHANGED <<sessionVars, pageVars, netVars, clock>>

\* the document navigation started by the interceptor completes: the page is
\* torn down with everything it had in flight, and /signin is loaded
PageUnload ==
    /\ unloading
    /\ unloading' = FALSE
    /\ mounted' = FALSE
    /\ location' = "/signin"
    /\ inflight' = EmptyBag
    /\ user' = Hydrate(storedToken)
    /\ toast' = NoToast
    /\ UNCHANGED <<screen, storedToken, screenVars, clock, otpSent, otpSentAt>>

\* time passes
Tick ==
    /\ clock' = clock + TickMs
    /\ toast' = NoToast
    /\ UNCHANGED <<screenVars, sessionVars, pageVars, netVars>>

\* the whole flow of one screen instance, with few resends
FlowResend == otpSent < MaxFlowSent /\ ResendClick
FlowTick == clock < MaxFlowTicks * TickMs /\ Tick

Next ==
    \/ TypeEmail /\ UNCHANGED dashVars
    \/ Submit /\ UNCHANGED dashVars
    \/ SubmitDone /\ UNCHANGED dashVars
    \/ OtpChange /\ UNCHANGED dashVars
    \/ FlowResend /\ UNCHANGED dashVars
    \/ ResendDone /\ UNCHANGED dashVars
    \/ VerifyClick /\ UNCHANGED dashVars
    \/ VerifyDone /\ UNCHANGED dashVars
    \/ Back /\ UNCHANGED dashVars
    \/ PageUnload /\ UNCHANGED dashVars
    \/ FlowTick /\ UNCHANGED dashVars

Spec == Init /\ [][Next]_vars

\* the resend throttle of one screen instance, with resends up to MaxSent
ThrottleResend == otpSent < MaxSent /\ ResendClick
ThrottleTick == clock < MaxTicks * TickMs /\ Tick

NextThrottle ==
    \/ Submit /\ UNCHANGED dashVars
    \/ SubmitDone /\ UNCHANGED dashVars
    \/ ThrottleResend /\ UNCHANGED dashVars
    \/ ResendDone /\ UNCHANGED dashVars
    \/ Back /\ UNCHANGED dashVars
    \/ PageUnload /\ UNCHANGED dashVars
    \/ ThrottleTick /\ UNCHANGED dashVars

SpecThrottle == Init /\ [][NextThrottle]_vars

-----------------------------------------------------------------------------
(* The handlers applied to drawn inputs: the OTP view of a screen in any    *)
(* state of its throttle and of its otp field                               *)

InitUnit ==
    /\ screen \in {"signin", "signup"}
    /\ mounted = TRUE
    /\ unloading = FALSE
    /\ location = (IF screen = "signin" THEN "/signin" ELSE "/signup")
    /\ storedToken = NoToken
    /\ user = NoUser
    /\ isLoading = FALSE
    /\ showOTP = TRUE
    /\ otp \in UnitOtps
    /\ userEmail \in {"", "jane@example.com"}
    /\ otpRequestCount \in 0 .. MaxSent
    /\ clock = UnitNow
    /\ lastOtpRequest \in {None} \cup {Some(UnitNow - d) : d \in UnitDeltas}
    /\ inflight = EmptyBag
    /\ toast = NoToast
    /\ otpSent = 0
    /\ otpSentAt = None
    /\ NoDashboard

\* handleOTPRequest called in the drawn state
CallOTPRequest == mounted /\ otpSent < MaxFlowSent /\ HandleOTPRequest

\* handleOTPVerification called in the drawn state
CallOTPVerification == mounted /\ HandleOTPVerification

NextUnit ==
    \/ CallOTPRequest /\ UNCHANGED dashVars
    \/ CallOTPVerification /\ UNCHANGED dashVars
    \/ ResendDone /\ UNCHANGED dashVars
    \/ VerifyDone /\ UNCHANGED dashVars

SpecUnit == InitUnit /\ [][NextUnit]_vars

-----------------------------------------------------------------------------
(* Claims *)

VerifyUrl == "/auth/verify-otp"
SubmitPending == Pending("/auth/login") \cup Pending("/auth/register")
AllDigits(s) == \A i \in 1 .. Len(s) : s[i] \in Digits

\* C1: one screen instance puts at most 5 POST /auth/request-otp requests on
\* the network, whatever the interleaving of resend clicks and completions.
C1_AtMostFiveRequests == otpSent <= 5

\* C2: two consecutive POST /auth/request-otp requests of one screen instance
\* are put on the network at least 60 seconds apart.
C2_RequestsSixtySecondsApart ==
    [][(otpSent' = otpSent + 1 /\ otpSentAt # None)
         => clock - otpSentAt[1] >= 60000]_vars

\* C3: handleOTPRequest run with otpRequestCount >= 5, or within 60 seconds of
\* lastOtpRequest, raises an error notification, puts no request on the
\* network and leaves otpRequestCount and lastOtpRequest unchanged.
C3_ThrottleViolationStaysLocal ==
    [][(/\ CallOTPRequest
        /\ \/ otpRequestCount >= 5
           \/ (lastOtpRequest # None /\ clock - lastOtpRequest[1] < 60000))
         => /\ inflight' = inflight
            /\ otpSent' = otpSent
            /\ toast'.type = "error"
            /\ otpRequestCount' = otpRequestCount
            /\ lastOtpRequest' = lastOtpRequest]_vars

\* a resend was rejected for the ceiling alone: the interval had passed
C3_Witness ==
    /\ toast = ToastError("Too many OTP requests. Please try again later.")
    /\ otpRequestCount >= 5
    /\ lastOtpRequest # None /\ clock - lastOtpRequest[1] >= 60000
    /\ inflight = EmptyBag

\* C4: a resend attempted d milliseconds after lastOtpRequest, 0 <= d < 60000,
\* on a screen with a verification target, is rejected and reports a wait of
\* ceil((60000 - d) / 1000) seconds, a value in 1..60; for d = 30000 the
\* reported wait is between 29 and 31 seconds.
C4_ReportedWait ==
    [][(/\ CallOTPRequest
        /\ userEmail # ""
        /\ lastOtpRequest # None
        /\ clock - lastOtpRequest[1] >= 0
        /\ clock - lastOtpRequest[1] < 60000)
         => LET d == clock - lastOtpRequest[1]
                n == toast'.n
            IN  /\ inflight' = inflight
                /\ toast'.type = "error"
                /\ n * 1000 >= 60000 - d
                /\ (n - 1) * 1000 < 60000 - d
                /\ n \in 1 .. 60
                /\ (d = 30000 => n \in 29 .. 31)]_vars

\* a resend 30 seconds after the last one was rejected with a wait of 30
C4_Witness ==
    /\ lastOtpRequest # None /\ clock - lastOtpRequest[1] = 30000
    /\ toast.type = "error" /\ toast.n = 30
    /\ inflight = EmptyBag

\* C5: handleOTPVerification puts POST /auth/verify-otp on the network only
\* when otp is exactly 6 digits and userEmail is non-empty; otherwise it raises
\* an error notification, sends nothing and changes no state, and an otp of
\* length 6 with a non-digit gets "OTP must contain only numbers".
C5_VerificationRejectedLocally ==
    [][CallOTPVerification
         => IF Len(otp) = 6 /\ AllDigits(otp) /\ userEmail # ""
            THEN inflight' = Add(inflight, Request(VerifyUrl, userEmail, otp, None))
            ELSE /\ inflight' = inflight
                 /\ toast'.type = "error"
                 /\ UNCHANGED <<screenVars, sessionVars, location, mounted>>
                 /\ (Len(otp) = 6 /\ ~AllDigits(otp) /\ userEmail # "")
                      => toast'.text = "OTP must contain only numbers"]_vars

\* "12a456" was submitted for verification and rejected as not numeric
C5_Witness ==
    /\ otp = <<"1", "2", "a", "4", "5", "6">>
    /\ toast = ToastError("OTP must contain only numbers")
    /\ inflight = EmptyBag

\* C6: a successful POST /auth/verify-otp commits the returned token and user
\* to the session and navigates to /welcome in the same handler run; the
\* persisted token is set, and /welcome entered, by nothing else.
C6_CommitThenNavigate ==
    [][/\ \A r \in Pending(VerifyUrl) : \A resp \in OkResponses(r) :
            HandleOTPVerificationDone(r, resp)
              => /\ storedToken' = resp.token
                 /\ user' = resp.user
                 /\ location' = "/welcome"
       /\ (\/ (storedToken' # storedToken /\ storedToken' # NoToken)
           \/ (location' = "/welcome" /\ location # "/welcome"))
            => \E r \in Pending(VerifyUrl) : \E resp \in OkResponses(r) :
                  /\ inflight' = Remove(inflight, r)
                  /\ storedToken' = resp.token
                  /\ user' = resp.user
                  /\ location' = "/welcome"]_vars

\* a verification succeeded: session committed, location /welcome
C6_Witness ==
    /\ storedToken = "jwt"
    /\ user \in Emails
    /\ location = "/welcome"
    /\ toast = ToastSuccess("Email verified successfully!")

\* C7 as stated: a failed POST /auth/verify-otp leaves the screen in
\* OtpPending, the session, the location, otp, userEmail and the throttle
\* state unchanged, and surfaces the server's message or the fallback.
C7_VerifyFailureChangesNothing ==
    [][\A r \in Pending(VerifyUrl) : \A resp \in ErrorResponses :
          HandleOTPVerificationDone(r, resp)
            => /\ showOTP' = showOTP
               /\ UNCHANGED <<storedToken, user, location>>
               /\ UNCHANGED <<otp, userEmail, otpRequestCount, lastOtpRequest>>
               /\ toast' = ToastError(IF resp.message # "" THEN resp.message
                                      ELSE "OTP verification failed")]_vars

\* C7 as amended: the same for every failure status other than 401; on 401
\* the handler still leaves the screen state unchanged and surfaces the
\* message, while the interceptor clears the token and sets /signin.
C7_VerifyFailureExceptUnauthorized ==
    [][\A r \in Pending(VerifyUrl) : \A resp \in ErrorResponses :
          HandleOTPVerificationDone(r, resp)
            => /\ showOTP' = showOTP
               /\ user' = user
               /\ UNCHANGED <<otp, userEmail, otpRequestCount, lastOtpRequest>>
               /\ toast' = ToastError(IF resp.message # "" THEN resp.message
                                      ELSE "OTP verification failed")
               /\ IF resp.status = 401
                  THEN storedToken' = NoToken /\ location' = "/signin"
                  ELSE UNCHANGED <<storedToken, location>>]_vars

\* a verification failed without a server message: still in OtpPending
C7_Witness ==
    /\ toast = ToastError("OTP verification failed")
    /\ showOTP /\ mounted /\ ~unloading
    /\ Len(otp) = 6
    /\ userEmail \in Emails

\* C8: Back moves an OtpPending screen to FormEntry, sends nothing and
\* discards the entered otp and the verification target.
C8_BackDiscardsOtpState ==
    [][Back => /\ ~showOTP'
               /\ inflight' = inflight
               /\ otp' = <<>>
               /\ userEmail' = ""]_vars

\* C9: a successful submission enters OtpPending with userEmail the submitted
\* email, a failed one leaves the screen in FormEntry, and in OtpPending
\* userEmail changes, and OtpPending is entered, by nothing but a successful
\* submission, to the email it submitted.
C9_TargetIsSubmittedEmail ==
    [][/\ \A r \in SubmitPending : \A resp \in Responses(r) :
            OnSubmitDone(r, resp)
              => IF resp \in ErrorResponses
                 THEN ~showOTP /\ ~showOTP'
                 ELSE mounted => (showOTP' /\ userEmail' = r.email)
       /\ (showOTP' /\ (~showOTP \/ userEmail' # userEmail))
            => \E r \in SubmitPending :
                  /\ inflight' = Remove(inflight, r)
                  /\ userEmail' = r.email
                  /\ toast'.type = "success"]_vars

\* a second submission, for another email, succeeded after Back
C9_Witness ==
    /\ showOTP /\ mounted
    /\ userEmail = "joe@example.com"
    /\ otp # <<>>
    /\ toast.type = "success" /\ toast # ToastSuccess("OTP sent to your email")

\* C10: whichever handler awaits it, a 401 response removes the persisted
\* token, sets the location to /signin and still reaches the handler's catch
\* block; a response of any other status leaves token and location as they
\* are, but for the commit of a successful verification.
C10_UnauthorizedClearsSession ==
    [][\A r \in BagToSet(inflight) : \A resp \in Responses(r) :
          (\/ (r \in SubmitPending /\ OnSubmitDone(r, resp))
           \/ (r.url = "/auth/request-otp" /\ HandleOTPRequestDone(r, resp))
           \/ (r.url = VerifyUrl /\ HandleOTPVerificationDone(r, resp)))
            => IF resp.status = 401
               THEN /\ storedToken' = NoToken
                    /\ location' = "/signin"
                    /\ toast'.type = "error"
                    /\ UNCHANGED <<showOTP, userEmail, otpRequestCount, lastOtpRequest, user>>
               ELSE IF r.url = VerifyUrl /\ resp.status = 200
               THEN TRUE
               ELSE UNCHANGED <<storedToken, location>>]_vars

\* a 401 removed the token that a verification had just committed
C10_Witness ==
    /\ user \in Emails
    /\ storedToken = NoToken
    /\ location = "/signin"
    /\ toast = ToastError("Unauthorized")

\* ---------------------------------------------------------------------
\* Behaviours in which the user starts nothing once a 401 has been
\* handled: from then on only the responses of the requests that were
\* already in flight arrive, and the page is replaced.
QuietStep == ~unloading /\ Next

DrainStep ==
    /\ unloading
    /\ SubmitDone \/ ResendDone \/ VerifyDone \/ PageUnload
    /\ UNCHANGED dashVars

NextRace == QuietStep \/ DrainStep

SpecRace == Init /\ [][NextRace]_vars

\* C11: once the interceptor has handled a 401 (token removed, location set
\* to /signin, the page about to be replaced), the token stays removed and
\* the location stays /signin whatever responses of earlier requests arrive.
C11_InterceptorWinsRace ==
    [][(unloading /\ storedToken = NoToken /\ location = "/signin")
          => (storedToken' = NoToken /\ location' = "/signin")]_vars

\* ---------------------------------------------------------------------
\* The session across screens: the return from Google OAuth and the
\* sign-out of the Welcome screen, next to the flow of the screen.

\* the token query parameter of an OAuth return
OAuthTokens == {"oauth-jwt"}

\* the sign-in screen has rendered for the first time and nothing has happened
FirstRender ==
    /\ screen = "signin" /\ mounted /\ ~unloading /\ location = "/signin"
    /\ userEmail = "" /\ ~isLoading /\ ~showOTP /\ otp = <<>>
    /\ inflight = EmptyBag /\ otpSent = 0 /\ clock = 0 /\ toast = NoToast
    /\ storedToken = NoToken

\* useEffect of SignIn: a token query parameter is stored and the
\* application navigates to the dashboard
OAuthReturn ==
    /\ FirstRender
    /\ \E token \in OAuthTokens :
          /\ storedToken' = token
          /\ location' = "/dashboard"
          /\ mounted' = FALSE
    /\ toast' = NoToast
    /\ UNCHANGED <<screen, unloading, user, screenVars, clock, netVars, dashVars>>

\* logout() of the session context: the token is removed, the user cleared
LogoutToken == NoToken
LogoutUser == NoUser

\* handleLogout of the Welcome screen, shown at /welcome
WelcomeLogout ==
    /\ location = "/welcome" /\ ~mounted /\ ~unloading
    /\ storedToken' = LogoutToken
    /\ user' = LogoutUser
    /\ toast' = ToastSuccess("Logged out successfully!")
    /\ location' = "/signin"
    /\ UNCHANGED <<screen, mounted, unloading, screenVars, clock, netVars, dashVars>>

NextSession ==
    \/ Next
    \/ OAuthReturn
    \/ WelcomeLogout

SpecSession == Init /\ [][NextSession]_vars

\* C12: in every reachable state the persisted token is present if and only
\* if the session holds an authenticated user.
C12_TokenIffUser == (storedToken # NoToken) <=> (user # NoUser)

\* a verify-otp success has committed the session and navigated to /welcome:
\* the screen instance is unmounted and no 401 is being handled
Verified ==
    /\ ~mounted /\ ~unloading
    /\ location = "/welcome"
    /\ storedToken # NoToken /\ user # NoUser

\* C13: a flow instance that has reached Verified is terminal: no step
\* changes the session, the location or the state of the screen any more,
\* whatever requests were in flight at the moment of the success.
C13_VerifiedIsTerminal ==
    [][Verified => UNCHANGED <<storedToken, user, location, unloading, mounted, screenVars>>]_vars

\* C17: validateOTP is true exactly for the strings of 6 characters that are
\* all decimal digits, and the local check of handleOTPVerification (given an
\* email) accepts exactly the strings validateOTP accepts.
C17_ValidateOTPSixDigits ==
    /\ ValidateOTP(otp) <=>
          (Len(otp) = 6 /\ \A i \in 1 .. Len(otp) :
              otp[i] \in {"0", "1", "2", "3", "4", "5", "6", "7", "8", "9"})
    /\ ValidateOTP(otp) <=> (OTPVerificationOutcome(otp, "jane@example.com") = "send")

\* a 6-digit otp that validateOTP accepts and the handler has sent
C17_Witness ==
    /\ ValidateOTP(otp)
    /\ \E r \in Pending(VerifyUrl) : r.otp = otp /\ r.otp[1] = "0"

\* C18: the stored otp holds only digits in every reachable state; it
\* changes only by an input change event of the OTP view, which stores the
\* typed value without its non-digit characters.
C18_OtpOnlyDigits ==
    /\ []AllDigits(otp)
    /\ [][otp' # otp =>
            /\ mounted /\ showOTP
            /\ \E raw \in OtpInputs :
                  otp' = SelectSeq(raw, LAMBDA c : c \in Digits)]_vars

\* "12a456" was typed and "12456" stored
C18_Witness ==
    /\ mounted /\ showOTP
    /\ otp = <<"1", "2", "4", "5", "6">>

\* the resend throttle of a user who waits for each response before the next
\* click, over MaxSerialTicks steps of the clock
MaxSerialTicks == 10

SerialResend == inflight = EmptyBag /\ ThrottleResend
SerialTick == clock < MaxSerialTicks * TickMs /\ Tick

NextSerial ==
    \/ Submit /\ UNCHANGED dashVars
    \/ SubmitDone /\ UNCHANGED dashVars
    \/ SerialResend /\ UNCHANGED dashVars
    \/ ResendDone /\ UNCHANGED dashVars
    \/ Back /\ UNCHANGED dashVars
    \/ PageUnload /\ UNCHANGED dashVars
    \/ SerialTick /\ UNCHANGED dashVars

SpecSerial == Init /\ [][NextSerial]_vars

\* C19: the resend control is disabled, and a click on it does nothing, in
\* every state with otpRequestCount >= 5, whatever lastOtpRequest and the
\* clock are; it is enabled in every state with otpRequestCount < 5.
C19_ResendDisabledIffLimit ==
    /\ otpRequestCount >= 5 => (ResendDisabled /\ ~ENABLED ResendClick)
    /\ otpRequestCount < 5 => ~ResendDisabled

\* the OTP view at the limit, more than 60 seconds after the last request
C19_Witness ==
    /\ mounted /\ showOTP
    /\ otpRequestCount >= 5
    /\ lastOtpRequest # None
    /\ clock - lastOtpRequest[1] >= 60000

-----------------------------------------------------------------------------
(* The Dashboard screen (src/src/pages/Dashboard.tsx, first half): the     *)
(* local notes cache against the notes the server holds.  A note is        *)
(* modelled by its _id, a number the server assigns in order of creation.  *)
(* The server carries a request out at the moment it answers it.           *)

\* notes the server creates at most in a behaviour, counting those it starts with
MaxNotes == 3

Whitespace == {" ", "\t", "\n"}

\* values typed into the title and the content field
TitleInputs == { <<" ">>, <<"a">> }
ContentInputs == { <<" ", "\n">>, <<" ", "b", " ">> }

RECURSIVE TrimStart(_)
TrimStart(s) ==
    IF s # <<>> /\ Head(s) \in Whitespace THEN TrimStart(Tail(s)) ELSE s

RECURSIVE TrimEnd(_)
TrimEnd(s) ==
    IF s # <<>> /\ s[Len(s)] \in Whitespace
    THEN TrimEnd(SubSeq(s, 1, Len(s) - 1))
    ELSE s

\* faulty variant: the value tested untrimmed
TrimNothing(s) == s

\* String.prototype.trim()
Trim(s) == TrimEnd(TrimStart(s))

\* the synchronous part of handleCreateNote: which branch it takes
CreateNoteOutcome(data) ==
    IF Trim(data.title) = <<>> \/ Trim(data.content) = <<>> THEN "missing"
    ELSE "send"

\* a request of the Dashboard; captured is the value of notes in the render
\* whose handler sent it, which the continuation of that handler reads
DashRequest(method, url, id, data, captured) ==
    [url |-> url, method |-> method, id |-> id, data |-> data, notes |-> captured]

FetchRequest == DashRequest("GET", "/notes", 0, EmptyForm, <<>>)

DashErrors ==
    { [status |-> 500, message |-> "", notes |-> <<>>, note |-> 0],
      [status |-> 400, message |-> "Title is too long", notes |-> <<>>, note |-> 0],
      [status |-> Unauthorized, message |-> "Unauthorized", notes |-> <<>>, note |-> 0] }

Range(seq) == {seq[i] : i \in 1 .. Len(seq)}

Without(seq, id) == SelectSeq(seq, LAMBDA n : n # id)

\* the requests the server can carry out: it deletes only a note it holds
ServerAccepts(r) == r.method = "DELETE" => r.id \in Range(serverNotes)

\* the response of the server that carries r out
ServerOk(r) ==
    IF r.method = "GET"
    THEN [status |-> 200, message |-> "", notes |-> serverNotes, note |-> 0]
    ELSE IF r.method = "POST"
    THEN [status |-> 201, message |-> "", notes |-> <<>>, note |-> serverCreated + 1]
    ELSE [status |-> 200, message |-> "", notes |-> <<>>, note |-> 0]

\* the notes the server holds once it has answered r with resp
ServerNotesAfter(r, resp) ==
    IF IsError(resp) THEN serverNotes
    ELSE IF r.method = "POST" THEN <<resp.note>> \o serverNotes
    ELSE IF r.method = "DELETE" THEN Without(serverNotes, r.id)
    ELSE serverNotes

ServerCreatedAfter(r, resp) ==
    IF ~IsError(resp) /\ r.method = "POST" THEN serverCreated + 1 ELSE serverCreated

PendingMethod(method) == {r \in BagToSet(inflight) : r.method = method}

\* the number of POST /notes awaiting their response
CreatesInFlight ==
    BagCardinality([r \in PendingMethod("POST") |-> inflight[r]])

\* a freshly mounted Dashboard of an authenticated user: the mount effect has
\* called fetchNotes
InitDash ==
    /\ screen = "dashboard"
    /\ mounted = TRUE
    /\ unloading = FALSE
    /\ location = "/dashboard"
    /\ storedToken = "jwt"
    /\ user = "jane@example.com"
    /\ isLoading = TRUE
    /\ showOTP = FALSE
    /\ otp = <<>>
    /\ userEmail = ""
    /\ otpRequestCount = 0
    /\ lastOtpRequest = None
    /\ clock = 0
    /\ inflight = SetToBag({FetchRequest})
    /\ toast = NoToast
    /\ otpSent = 0
    /\ otpSentAt = None
    /\ notes = <<>>
    /\ showCreateForm = FALSE
    /\ formData = EmptyForm
    /\ serverNotes \in { <<>>, <<1>> }
    /\ serverCreated = Len(serverNotes)

authVars == <<showOTP, otp, userEmail, otpRequestCount, lastOtpRequest,
              clock, otpSent, otpSentAt, screen, user>>

\* the continuation of fetchNotes
FetchNotesDone(r, resp) ==
    /\ inflight' = Remove(inflight, r)
    /\ serverNotes' = ServerNotesAfter(r, resp)
    /\ serverCreated' = ServerCreatedAfter(r, resp)
    /\ IF IsError(resp)
       THEN /\ storedToken' = InterceptToken(resp, storedToken)
            /\ location' = InterceptLocation(resp, location)
            /\ unloading' = InterceptUnloading(resp, unloading)
            /\ toast' = ToastError("Failed to fetch notes")
            /\ UNCHANGED notes
       ELSE /\ notes' = (IF mounted THEN resp.notes ELSE notes)
            /\ toast' = NoToast
            /\ UNCHANGED <<storedToken, location, unloading>>
    /\ isLoading' = (IF mounted THEN FALSE ELSE isLoading)
    /\ UNCHANGED <<showCreateForm, formData, mounted, authVars>>

\* handleCreateNote up to its await
HandleCreateNote ==
    LET outcome == CreateNoteOutcome(formData)
    IN  /\ outcome = "send" => CanSend
        /\ IF outcome = "send"
           THEN /\ inflight' = Add(inflight, DashRequest("POST", "/notes", 0, formData, notes))
                /\ toast' = NoToast
           ELSE /\ toast' = ToastError("Please fill in all fields")
                /\ UNCHANGED inflight
        /\ UNCHANGED <<dashVars, isLoading, storedToken, location, unloading, mounted, authVars>>

\* the continuation of handleCreateNote: notes is the value the handler's
\* render held
HandleCreateNoteDone(r, resp) ==
    /\ inflight' = Remove(inflight, r)
    /\ serverNotes' = ServerNotesAfter(r, resp)
    /\ serverCreated' = ServerCreatedAfter(r, resp)
    /\ IF IsError(resp)
       THEN /\ storedToken' = InterceptToken(resp, storedToken)
            /\ location' = InterceptLocation(resp, location)
            /\ unloading' = InterceptUnloading(resp, unloading)
            /\ toast' = ToastError(ServerMessage(resp, "Failed to create note"))
            /\ UNCHANGED <<notes, formData, showCreateForm>>
       ELSE /\ notes' = (IF mounted THEN <<resp.note>> \o r.notes ELSE notes)
            /\ formData' = (IF mounted THEN EmptyForm ELSE formData)
            /\ showCreateForm' = (IF mounted THEN FALSE ELSE showCreateForm)
            /\ toast' = ToastSuccess("Note created successfully!")
            /\ UNCHANGED <<storedToken, location, unloading>>
    /\ UNCHANGED <<isLoading, mounted, authVars>>

\* handleDeleteNote up to its await; confirmed is the answer to window.confirm
HandleDeleteNote(noteId, confirmed) ==
    /\ confirmed => CanSend
    /\ IF confirmed
       THEN inflight' = Add(inflight, DashRequest("DELETE", "/notes/:id", noteId, EmptyForm, notes))
       ELSE UNCHANGED inflight
    /\ toast' = NoToast
    /\ UNCHANGED <<dashVars, isLoading, storedToken, location, unloading, mounted, authVars>>

\* the continuation of handleDeleteNote: notes is the value the handler's
\* render held
HandleDeleteNoteDone(r, resp) ==
    /\ inflight' = Remove(inflight, r)
    /\ serverNotes' = ServerNotesAfter(r, resp)
    /\ serverCreated' = ServerCreatedAfter(r, resp)
    /\ IF IsError(resp)
       THEN /\ storedToken' = InterceptToken(resp, storedToken)
            /\ location' = InterceptLocation(resp, location)
            /\ unloading' = InterceptUnloading(resp, unloading)
            /\ toast' = ToastError(ServerMessage(resp, "Failed to delete note"))
            /\ UNCHANGED notes
       ELSE /\ notes' = (IF mounted THEN Without(r.notes, r.id) ELSE notes)
            /\ toast' = ToastSuccess("Note deleted successfully!")
            /\ UNCHANGED <<storedToken, location, unloading>>
    /\ UNCHANGED <<showCreateForm, formData, isLoading, mounted, authVars>>

\* handleCancel
HandleCancel ==
    /\ showCreateForm' = FALSE
    /\ formData' = EmptyForm
    /\ toast' = NoToast
    /\ UNCHANGED <<notes, serverNotes, serverCreated, inflight, isLoading,
                   storedToken, location, unloading, mounted, authVars>>

(* Events of the Dashboard *)

DashboardShown == screen = "dashboard" /\ mounted

\* the Create Note button of the header
ShowCreate ==
    /\ DashboardShown
    /\ showCreateForm' = TRUE
    /\ toast' = NoToast
    /\ UNCHANGED <<notes, formData, serverNotes, serverCreated, inflight, isLoading,
                   storedToken, location, unloading, mounted, authVars>>

TypeTitle ==
    /\ DashboardShown /\ showCreateForm
    /\ \E v \in TitleInputs : formData' = [formData EXCEPT !.title = v]
    /\ toast' = NoToast
    /\ UNCHANGED <<notes, showCreateForm, serverNotes, serverCreated, inflight, isLoading,
                   storedToken, location, unloading, mounted, authVars>>

TypeContent ==
    /\ DashboardShown /\ showCreateForm
    /\ \E v \in ContentInputs : formData' = [formData EXCEPT !.content = v]
    /\ toast' = NoToast
    /\ UNCHANGED <<notes, showCreateForm, serverNotes, serverCreated, inflight, isLoading,
                   storedToken, location, unloading, mounted, authVars>>

\* the form's submit
CreateSubmit ==
    /\ DashboardShown /\ showCreateForm
    /\ HandleCreateNote

\* the Cancel button of the form
Cancel ==
    /\ DashboardShown /\ showCreateForm
    /\ HandleCancel

\* the delete button of a listed note, and the answer to its confirmation
DeleteClick ==
    /\ DashboardShown /\ ~isLoading
    /\ \E noteId \in Range(notes) : \E confirmed \in BOOLEAN :
          HandleDeleteNote(noteId, confirmed)

FetchDoneOk ==
    \E r \in PendingMethod("GET") :
        ServerAccepts(r) /\ FetchNotesDone(r, ServerOk(r))

FetchDoneError ==
    \E r \in PendingMethod("GET") :
        \E resp \in DashErrors : FetchNotesDone(r, resp)

CreateDoneOk ==
    \E r \in PendingMethod("POST") :
        ServerAccepts(r) /\ HandleCreateNoteDone(r, ServerOk(r))

CreateDoneError ==
    \E r \in PendingMethod("POST") :
        \E resp \in DashErrors : HandleCreateNoteDone(r, resp)

DeleteDoneOk ==
    \E r \in PendingMethod("DELETE") :
        ServerAccepts(r) /\ HandleDeleteNoteDone(r, ServerOk(r))

DeleteDoneError ==
    \E r \in PendingMethod("DELETE") :
        \E resp \in DashErrors : HandleDeleteNoteDone(r, resp)

\* the Dashboard with creations up to the server's MaxNotes
DashCreate == serverCreated + CreatesInFlight < MaxNotes /\ CreateSubmit

NextDash ==
    \/ ShowCreate
    \/ TypeTitle
    \/ TypeContent
    \/ DashCreate
    \/ Cancel
    \/ DeleteClick
    \/ FetchDoneOk
    \/ FetchDoneError
    \/ CreateDoneOk
    \/ CreateDoneError
    \/ DeleteDoneOk
    \/ DeleteDoneError
    \/ PageUnload /\ UNCHANGED dashVars

SpecDash == InitDash /\ [][NextDash]_vars

\* the Dashboard against a server that carries every request out
NextDashOk ==
    \/ ShowCreate
    \/ TypeTitle
    \/ TypeContent
    \/ DashCreate
    \/ Cancel
    \/ DeleteClick
    \/ FetchDoneOk
    \/ CreateDoneOk
    \/ DeleteDoneOk

SpecDashOk == InitDash /\ [][NextDashOk]_vars

\* the create form of the Dashboard alone: no deletes, creations up to
\* MaxFormNotes notes on the server
MaxFormNotes == 2

FormCreate == serverCreated + CreatesInFlight < MaxFormNotes /\ CreateSubmit

NextForm ==
    \/ ShowCreate
    \/ TypeTitle
    \/ TypeContent
    \/ FormCreate
    \/ Cancel
    \/ FetchDoneOk
    \/ FetchDoneError
    \/ CreateDoneOk
    \/ CreateDoneError
    \/ PageUnload /\ UNCHANGED dashVars

SpecForm == InitDash /\ [][NextForm]_vars

NonBlank(s) == \E i \in 1 .. Len(s) : s[i] \notin Whitespace

CreatesOf(bag) == {r \in BagToSet(bag) : r.method = "POST"}

\* C14: a submit of the create form puts a POST /notes carrying the form data
\* on the network only when title and content both hold a character that is
\* not white space; otherwise it reports "Please fill in all fields", sends
\* nothing and leaves notes, formData and showCreateForm as they are.
C14_CreateValidatesFields ==
    [][CreateSubmit =>
         IF NonBlank(formData.title) /\ NonBlank(formData.content)
         THEN /\ inflight' = inflight (+) SetToBag({DashRequest("POST", "/notes", 0, formData, notes)})
              /\ UNCHANGED <<notes, formData, showCreateForm>>
         ELSE /\ toast' = ToastError("Please fill in all fields")
              /\ inflight' = inflight
              /\ UNCHANGED <<notes, formData, showCreateForm, serverNotes>>]_vars

\* a form with a title and a white-space-only content was submitted: the
\* notification is raised and no POST /notes is in flight
C14_Witness ==
    /\ toast = ToastError("Please fill in all fields")
    /\ formData.title = <<"a">>
    /\ formData.content = <<" ", "\n">>
    /\ showCreateForm
    /\ CreatesOf(inflight) = {}

\* C15: the continuation of a create changes the cache of the mounted
\* Dashboard only by a success, which puts the note the server returned in
\* front of all the notes cached until then, in their order; a failure leaves
\* notes, formData and showCreateForm as they are.
C15_CreatePrependsToCache ==
    [][\A r \in PendingMethod("POST") : \A resp \in DashErrors \cup {ServerOk(r)} :
          (mounted /\ HandleCreateNoteDone(r, resp))
            => IF IsError(resp)
               THEN UNCHANGED <<notes, formData, showCreateForm>>
               ELSE notes' = <<resp.note>> \o notes]_vars

\* C16: a delete is requested only after the confirmation and a declined one
\* changes nothing; the continuation of a delete, on the mounted Dashboard,
\* removes exactly the note of that id from the cache on success, keeping the
\* order of the others, and leaves the cache as it is on failure.
C16_DeleteRemovesOneNote ==
    [][/\ \A noteId \in Range(notes) :
            HandleDeleteNote(noteId, FALSE) => UNCHANGED <<inflight, dashVars>>
       /\ \A r \in PendingMethod("DELETE") : \A resp \in DashErrors \cup {ServerOk(r)} :
            (mounted /\ HandleDeleteNoteDone(r, resp))
              => IF IsError(resp)
                 THEN UNCHANGED notes
                 ELSE notes' = SelectSeq(notes, LAMBDA n : n # r.id)]_vars

\* C20: when every request of the Dashboard has completed, all of them
\* successfully, the cache holds exactly the notes the server holds.
C20_CacheMatchesServer ==
    (mounted /\ inflight = EmptyBag) => Range(notes) = Range(serverNotes)

ResendUrl == "/auth/request-otp"

\* C21: otpRequestCount and lastOtpRequest change only in the continuation of
\* a resend the server accepted; the continuation of a failed resend and the
\* continuation of a form submission leave both as they are.
C21_CountChangesOnAcceptedResend ==
    [][/\ (otpRequestCount' # otpRequestCount \/ lastOtpRequest' # lastOtpRequest)
            => \E r \in Pending(ResendUrl) : \E resp \in OkResponses(r) :
                  HandleOTPRequestDone(r, resp)
       /\ \A r \in Pending(ResendUrl) : \A resp \in ErrorResponses :
            HandleOTPRequestDone(r, resp) => UNCHANGED <<otpRequestCount, lastOtpRequest>>
       /\ \A r \in SubmitPending : \A resp \in Responses(r) :
            OnSubmitDone(r, resp) => UNCHANGED <<otpRequestCount, lastOtpRequest>>]_vars

\* after an accepted resend, a second resend reached the network and failed:
\* two requests sent, one counted, the interval still that of the first
C21_Witness ==
    /\ mounted /\ showOTP
    /\ toast = ToastError("Failed to send OTP")
    /\ otpSent = 2
    /\ otpRequestCount = 1
    /\ lastOtpRequest # None /\ otpSentAt # None
    /\ lastOtpRequest[1] < otpSentAt[1]

\* the serial resend throttle with the email field of the sign-in form
NextEdit ==
    \/ NextSerial
    \/ TypeEmail /\ UNCHANGED dashVars

SpecEdit == Init /\ [][NextEdit]_vars

\* C22: in a mounted screen otpRequestCount never decreases, and neither
\* Back, nor an edit of the email, nor a form submission or its completion
\* changes otpRequestCount or lastOtpRequest; a lastOtpRequest once set is
\* never cleared, and a resend control disabled at the ceiling stays disabled.
C22_CountNeverReset ==
    [][/\ otpRequestCount' >= otpRequestCount
       /\ lastOtpRequest # None => lastOtpRequest' # None
       /\ otpRequestCount >= 5 => ResendDisabled'
       /\ (\/ Back
           \/ TypeEmail
           \/ Submit
           \/ \E r \in SubmitPending : \E resp \in Responses(r) : OnSubmitDone(r, resp))
            => UNCHANGED <<otpRequestCount, lastOtpRequest>>]_vars

\* at the ceiling the user went back to the form and submitted it again with
\* success: the OTP view is shown again with the resend control disabled
C22_Witness ==
    /\ mounted /\ showOTP
    /\ otpRequestCount >= 5
    /\ lastOtpRequest # None
    /\ toast.type = "success" /\ toast # ToastSuccess("OTP sent to your email")
    /\ ResendDisabled

-----------------------------------------------------------------------------
(* The screens that hold a loading flag: a sign-in or sign-up screen with   *)
(* its whole flow, or a Dashboard with its fetch and its create form         *)

InitLoading == Init \/ InitDash

AuthStep == screen # "dashboard" /\ Next

DashStep == screen = "dashboard" /\ NextForm

NextLoading == AuthStep \/ DashStep

SpecLoading == InitLoading /\ [][NextLoading]_vars

\* the number of form submissions awaiting their response
SubmitsInFlight == BagCardinality([r \in SubmitPending |-> inflight[r]])

\* the request whose completion clears the loading flag of the screen
LoadingRequests ==
    IF screen = "dashboard" THEN PendingMethod("GET") ELSE SubmitPending

\* C23: the loading flag of a mounted screen is set only while its request
\* is in flight, and the completion of that request, success or failure,
\* leaves it false: of a form submission on sign-in and sign-up, of which at
\* most one is in flight, and of the mount-time fetch of the Dashboard.
C23_LoadingFlagCleared ==
    /\ [](SubmitsInFlight <= 1)
    /\ []((mounted /\ isLoading) => LoadingRequests # {})
    /\ [][(/\ mounted /\ screen # "dashboard"
           /\ \E r \in SubmitPending : \E resp \in Responses(r) : OnSubmitDone(r, resp))
            => (~isLoading' /\ SubmitsInFlight' = 0)]_vars
    /\ [][(/\ mounted /\ screen = "dashboard"
           /\ \E r \in PendingMethod("GET") : \E resp \in DashErrors \cup {ServerOk(r)} :
                 FetchNotesDone(r, resp))
            => ~isLoading']_vars

\* a sign-in submission failed: the form is shown with its submit control
\* enabled again
C23_Witness ==
    /\ screen = "signin" /\ mounted /\ ~showOTP
    /\ toast = ToastError("Login failed")
    /\ ~isLoading
    /\ SubmitsInFlight = 0

====
